---- MODULE Spec2Model ----
(***************************************************************************)
(* Model of data_tools.py (miniMDS): chromosome parameters, sparse         *)
(* structures of 3-D points, their construction from a contact list, the   *)
(* contact matrix, resolution reduction, serialisation and consensus       *)
(* alignment.                                                              *)
(*                                                                         *)
(* The source is Python 2: "/" on integers is floor division, a negative   *)
(* subscript of a list or array counts from the end, and str(float) keeps  *)
(* 12 significant digits.  A call that raises is modelled by a result      *)
(* record with ok = FALSE.                                                 *)
(***************************************************************************)
EXTENDS Integers, Sequences, FiniteSets, TLC

VARIABLES bed, chrom, structures, file, mat, last, calls

vars == <<bed, chrom, structures, file, mat, last, calls>>

-----------------------------------------------------------------------------
(* Bounds of the input domain *)

\* longest contact list
MaxRecs == 2
\* bins of the contact list start at 0, BinSize, ..., MaxBin * BinSize
MaxBin == 3
\* width of a bin of the contact list (field 2 - field 1 of a record)
BinSize == 10
\* largest resolution ratio tried
MaxRatio == 2
\* largest indexing offset tried
MaxOffset == 2
\* resolution reduction is not applied beyond this resolution
MaxRes == 40
\* most calls made on the structures of one run
MaxCalls == 4

-----------------------------------------------------------------------------
(* Python values *)

\* None, for the optional non-negative integers of the program
None == -1

\* sys.float_info.max: larger than every position of a contact list
FloatMax == 1000000000

Ok(v) == [ok |-> TRUE, val |-> v]
\* a call that raised, v being what it had changed in place by then
Fail(v) == [ok |-> FALSE, val |-> v]
Raise == Fail(<<>>)

\* seq[n] for a Python subscript n (0-based, negative counts from the end):
\* the 1-based position, or 0 when Python raises IndexError
PyIndex(n, len) ==
  IF n >= 0 /\ n < len THEN n + 1
  ELSE IF n < 0 /\ n >= -len THEN n + len + 1
  ELSE 0

Max(S) == CHOOSE x \in S : \A y \in S : y <= x

RECURSIVE SumSeq(_)
SumSeq(s) == IF s = <<>> THEN 0 ELSE s[1] + SumSeq(Tail(s))

Range(s) == {s[i] : i \in 1..Len(s)}

\* ascending sequence of the elements of a finite set of integers (np.sort)
RECURSIVE SortSet(_)
SortSet(S) ==
  IF S = {} THEN <<>>
  ELSE LET m == CHOOSE x \in S : \A y \in S : x <= y
       IN <<m>> \o SortSet(S \ {m})

-----------------------------------------------------------------------------
(* ChromParameters *)

ChromParameters(minPos, maxPos, res, name, size) ==
  [minPos |-> minPos, maxPos |-> maxPos, res |-> res, name |-> name, size |-> size]

getLength(c) == (c.maxPos - c.minPos) \div c.res + 1

getPointNum(c, genCoord) ==
  IF genCoord < c.minPos \/ genCoord > c.maxPos
  THEN None
  ELSE (genCoord - c.minPos) \div c.res

CeilDiv(a, b) == -((-a) \div b)

\* reduceRes with maxPos rounded up to the low-resolution grid
reduceResCeil(c, resRatio) ==
  LET lowRes == c.res * resRatio
      lowMinPos == (c.minPos \div lowRes) * lowRes
      lowMaxPos == CeilDiv(c.maxPos, lowRes) * lowRes
  IN ChromParameters(lowMinPos, lowMaxPos, lowRes, c.name, c.size)

reduceRes(c, resRatio) ==
  LET lowRes == c.res * resRatio
      lowMinPos == (c.minPos \div lowRes) * lowRes
      lowMaxPos == (c.maxPos \div lowRes) * lowRes
  IN ChromParameters(lowMinPos, lowMaxPos, lowRes, c.name, c.size)

\* a record of the contact list: fields 1, 2, 4 and 6 of a line
Rec(pos1, end1, pos2, w) == [pos1 |-> pos1, end1 |-> end1, pos2 |-> pos2, w |-> w]

\* one iteration of the scan of chromFromBed: the elif leaves maxPos alone
\* when the position lowered minPos
ScanPos(mm, pos) ==
  IF pos < mm[1] THEN <<pos, mm[2]>>
  ELSE IF pos > mm[2] THEN <<mm[1], pos>>
  ELSE mm

RECURSIVE ScanBed(_, _)
ScanBed(mm, recs) ==
  IF recs = <<>> THEN mm
  ELSE ScanBed(ScanPos(ScanPos(mm, recs[1].pos1), recs[1].pos2), Tail(recs))

\* chromFromBed of a non-empty contact list
chromFromBed(recs) ==
  LET mm == ScanBed(<<FloatMax, 0>>, recs)
      res == recs[1].end1 - recs[1].pos1
      minPos == (mm[1] \div res) * res
      maxPos == CeilDiv(mm[2], res) * res
  IN ChromParameters(minPos, maxPos, res, "chr", Len(recs) - 1)

-----------------------------------------------------------------------------
(* Floating-point coordinates.  A coordinate is the non-negative number    *)
(* (hi * Limb + lo) * 10^-13, kept in two limbs.                           *)

Limb == 10^6

\* significant digits kept by str() of a float
StrDigits == 12

Float(hi, lo) == [hi |-> hi, lo |-> lo]

FZero == Float(0, 0)

FAdd(a, b) ==
  LET lo == a.lo + b.lo
  IN Float(a.hi + b.hi + lo \div Limb, lo % Limb)

\* division by a positive count, rounded at the last place kept
FDiv(a, k) == Float(a.hi \div k, ((a.hi % k) * Limb + a.lo) \div k)

RECURSIVE FSum(_)
FSum(s) == IF s = <<>> THEN FZero ELSE FAdd(s[1], FSum(Tail(s)))

RECURSIVE NumDigits(_)
NumDigits(n) == IF n < 10 THEN 1 ELSE 1 + NumDigits(n \div 10)

\* float(str(a)): the coordinate rounded to StrDigits significant digits
\* (round half to even), which is what the text of the file holds
StrFloat(a) ==
  LET drop == IF a.hi = 0 THEN 0 ELSE NumDigits(a.hi) + 6 - StrDigits
  IN IF drop <= 0 THEN a
     ELSE LET unit == 10^drop
              q == a.lo \div unit
              r == a.lo % unit
              up == IF 2 * r > unit \/ (2 * r = unit /\ q % 2 = 1) THEN 1 ELSE 0
              lo == (q + up) * unit
          IN IF lo >= Limb THEN Float(a.hi + 1, 0) ELSE Float(a.hi, lo)

\* np.mean(positions, axis=0) of a non-empty list of positions
MeanPos(ps) ==
  [k \in 1..3 |-> FDiv(FSum([i \in 1..Len(ps) |-> ps[i][k]]), Len(ps))]

-----------------------------------------------------------------------------
(* Point and Structure *)

\* the empty marker 0 of the slot array
Empty == [tag |-> "empty", pos |-> <<>>, num |-> None, index |-> None]

\* Point.chrom is always the chrom of the owning structure and is not kept
Point(pos, num, index) == [tag |-> "point", pos |-> pos, num |-> num, index |-> index]

\* the placeholder position (0,0,0)
Origin == <<FZero, FZero, FZero>>

RawStructure(points, structs, c, offset) ==
  [points |-> points, structures |-> structs, chrom |-> c, offset |-> offset]

\* np.where(self.points != 0): the occupied slots, ascending
Occupied(points) == {i \in 1..Len(points) : points[i] # Empty}

getPoints(s) == LET occ == SortSet(Occupied(s.points))
                IN [k \in 1..Len(occ) |-> s.points[occ[k]]]

getPointNums(s) == LET ps == getPoints(s) IN [k \in 1..Len(ps) |-> ps[k].num]

getCoords(s) == LET ps == getPoints(s) IN [k \in 1..Len(ps) |-> ps[k].pos]

getGenCoords(s) ==
  LET nums == getPointNums(s)
  IN [k \in 1..Len(nums) |-> s.chrom.minPos + s.chrom.res * nums[k]]

getIndex(s, genCoord) ==
  LET pointNum == getPointNum(s.chrom, genCoord)
  IN IF pointNum = None THEN None
     ELSE LET n == pointNum - s.offset
          IN IF n >= 0 /\ n < Len(s.points)
             THEN IF s.points[n + 1] = Empty THEN None ELSE s.points[n + 1].index
             ELSE None

\* the loop of indexPoints from its k-th point number on; raises on None - offset,
\* on a subscript out of range and on an empty slot (an int has no attribute)
RECURSIVE IndexLoop(_, _, _, _)
IndexLoop(points, nums, offset, k) ==
  IF k > Len(nums) THEN Ok(points)
  ELSE IF nums[k] = None THEN Fail(points)
  ELSE LET at == PyIndex(nums[k] - offset, Len(points))
       IN IF at = 0 THEN Fail(points)
          ELSE IF points[at] = Empty THEN Fail(points)
          ELSE IndexLoop([points EXCEPT ![at].index = k - 1], nums, offset, k + 1)

indexPoints(s) ==
  LET r == IndexLoop(s.points, getPointNums(s), s.offset, 1)
  IN [ok |-> r.ok, val |-> [s EXCEPT !.points = r.val]]

\* the loop of setCoords over zip(coords, point numbers)
RECURSIVE CoordLoop(_, _, _, _, _)
CoordLoop(points, coords, nums, offset, k) ==
  IF k > Len(nums) \/ k > Len(coords) THEN Ok(points)
  ELSE IF nums[k] = None THEN Fail(points)
  ELSE LET at == PyIndex(nums[k] - offset, Len(points))
       IN IF at = 0 THEN Fail(points)
          ELSE IF points[at] = Empty THEN Fail(points)
          ELSE CoordLoop([points EXCEPT ![at].pos = coords[k]], coords, nums, offset, k + 1)

setCoords(s, coords) ==
  LET r == CoordLoop(s.points, coords, getPointNums(s), s.offset, 1)
  IN [ok |-> r.ok, val |-> [s EXCEPT !.points = r.val]]

Zeros(n) == [i \in 1..n |-> Empty]

-----------------------------------------------------------------------------
(* Structure.__init__, setstructures, createSubstructure *)

\* the loop of setstructures over every slot of every child
RECURSIVE UnionLoop(_, _)
UnionLoop(points, childPoints) ==
  IF childPoints = <<>> THEN Ok(points)
  ELSE IF childPoints[1] = Empty THEN UnionLoop(points, Tail(childPoints))
  ELSE LET at == PyIndex(childPoints[1].num, Len(points))
       IN IF at = 0 THEN Raise
          ELSE UnionLoop([points EXCEPT ![at] = childPoints[1]], Tail(childPoints))

RECURSIVE ConcatPoints(_)
ConcatPoints(structs) ==
  IF structs = <<>> THEN <<>> ELSE structs[1].points \o ConcatPoints(Tail(structs))

\* max() of an empty sequence raises ValueError
setstructures(s, structs) ==
  IF \E j \in 1..Len(structs) : getPointNums(structs[j]) = <<>> THEN Raise
  ELSE LET top == Max({Max(Range(getPointNums(structs[j]))) : j \in 1..Len(structs)})
           r == UnionLoop(Zeros(top + 1), ConcatPoints(structs))
       IN IF r.ok THEN Ok([s EXCEPT !.structures = structs, !.points = r.val])
          ELSE Raise

Structure(points, structs, c, offset) ==
  IF Len(structs) = 0 THEN Ok(RawStructure(points, <<>>, c, offset))
  ELSE LET r == setstructures(RawStructure(points, <<>>, c, offset), structs)
       IN IF r.ok THEN Ok([r.val EXCEPT !.chrom = c, !.offset = offset]) ELSE Raise

\* createSubstructure followed by a re-derivation of the slot array
createSubstructureRederive(s, points, offset) ==
  LET sub == indexPoints(Structure(points, <<>>, s.chrom, offset).val)
      r == setstructures(s, Append(s.structures, sub.val))
  IN IF sub.ok /\ r.ok THEN r ELSE Fail(s)

createSubstructure(s, points, offset) ==
  LET sub == indexPoints(Structure(points, <<>>, s.chrom, offset).val)
  IN IF sub.ok THEN Ok([s EXCEPT !.structures = Append(s.structures, sub.val)])
     ELSE Fail(s)

-----------------------------------------------------------------------------
(* structureFromBed *)

\* the scan of one record without the test for a self-interaction
AddLociNoSelfTest(points, c, start, end, rec) ==
  IF rec.pos1 >= start /\ rec.pos1 <= end /\ rec.pos2 >= start /\ rec.pos2 <= end
  THEN LET p1 == [points EXCEPT ![(rec.pos1 - start) \div c.res + 1] =
                                   Point(Origin, getPointNum(c, rec.pos1), 0)]
       IN [p1 EXCEPT ![(rec.pos2 - start) \div c.res + 1] =
                        Point(Origin, getPointNum(c, rec.pos2), 0)]
  ELSE points

\* one record of the scan that adds loci
AddLoci(points, c, start, end, rec) ==
  IF rec.pos1 >= start /\ rec.pos1 <= end /\ rec.pos2 >= start /\ rec.pos2 <= end
  THEN LET pointNum1 == getPointNum(c, rec.pos1)
           pointNum2 == getPointNum(c, rec.pos2)
       IN IF pointNum1 # pointNum2
          THEN LET p1 == [points EXCEPT ![(rec.pos1 - start) \div c.res + 1] =
                                           Point(Origin, pointNum1, 0)]
               IN [p1 EXCEPT ![(rec.pos2 - start) \div c.res + 1] =
                                Point(Origin, pointNum2, 0)]
          ELSE points
  ELSE points

RECURSIVE LociLoop(_, _, _, _, _)
LociLoop(points, c, start, end, recs) ==
  IF recs = <<>> THEN points
  ELSE LociLoop(AddLoci(points, c, start, end, recs[1]), c, start, end, Tail(recs))

\* chromArg is <<>> for chrom=None and <<c>> otherwise; startArg and endArg
\* are None or a position; np.zeros of a negative length raises
structureFromBed(recs, chromArg, startArg, endArg, offset) ==
  LET c == IF chromArg = <<>> THEN chromFromBed(recs) ELSE chromArg[1]
      start == IF startArg = None THEN c.minPos ELSE startArg
      end == IF endArg = None THEN c.maxPos ELSE endArg
      n == (end - start) \div c.res + 1
  IN IF n < 0 THEN Raise
     ELSE indexPoints(RawStructure(LociLoop(Zeros(n), c, start, end, recs), <<>>, c, offset))

-----------------------------------------------------------------------------
(* matFromBed *)

ZeroMat(n) == [i \in 1..n |-> [j \in 1..n |-> 0]]

\* one record of the accumulation loop; raises when mat[row, col] is out of range
Accumulate(m, s, rec) ==
  LET index1 == getIndex(s, rec.pos1)
      index2 == getIndex(s, rec.pos2)
  IN IF index1 # None /\ index2 # None
     THEN LET row == IF index1 > index2 THEN index1 ELSE index2
              col == IF index1 > index2 THEN index2 ELSE index1
              i == PyIndex(row, Len(m))
              j == PyIndex(col, Len(m))
          IN IF i = 0 \/ j = 0 THEN Raise
             ELSE Ok([m EXCEPT ![i][j] = @ + rec.w])
     ELSE Ok(m)

RECURSIVE AccumulateLoop(_, _, _)
AccumulateLoop(m, s, recs) ==
  IF recs = <<>> THEN Ok(m)
  ELSE LET r == Accumulate(m, s, recs[1])
       IN IF r.ok THEN AccumulateLoop(r.val, s, Tail(recs)) ELSE Raise

\* array_tools.makeSymmetric: the lower triangle mirrored across the diagonal
makeSymmetric(m) ==
  [i \in 1..Len(m) |-> [j \in 1..Len(m) |-> IF j > i THEN m[j][i] ELSE m[i][j]]]

\* structArg is <<>> for structure=None and <<s>> otherwise; max() of no point
\* numbers, a failed assert and sys.exit(1) on a zero row sum all end the call
matFromBed(recs, structArg) ==
  LET made == IF structArg = <<>> THEN structureFromBed(recs, <<>>, None, None, 0)
              ELSE Ok(structArg[1])
  IN IF ~made.ok THEN Raise
     ELSE LET s == made.val
              pointNums == getPointNums(s)
              numpoints == Len(pointNums)
          IN IF numpoints = 0 THEN Raise
             ELSE IF ~(Max(Range(pointNums)) - s.offset < Len(s.points)) THEN Raise
             ELSE LET acc == AccumulateLoop(ZeroMat(numpoints), s, recs)
                  IN IF ~acc.ok THEN Raise
                     ELSE LET m == makeSymmetric(acc.val)
                          IN IF \E i \in 1..numpoints : SumSeq(m[i]) = 0 THEN Raise
                             ELSE Ok(m)

-----------------------------------------------------------------------------
(* highToLow *)

\* the bucketing loop: raises when allPointsToMerge[lowNum] is out of range
RECURSIVE BucketLoop(_, _, _, _)
BucketLoop(buckets, highPoints, offset, resRatio) ==
  IF highPoints = <<>> THEN Ok(buckets)
  ELSE LET highNum == highPoints[1].num - offset
           lowNum == highNum \div resRatio
           at == PyIndex(lowNum, Len(buckets))
       IN IF at = 0 THEN Raise
          ELSE BucketLoop([buckets EXCEPT ![at] = Append(@, highPoints[1])],
                          Tail(highPoints), offset, resRatio)

\* the merging loop from bucket i on; index is the next index to assign
RECURSIVE MergeLoop(_, _, _, _, _)
MergeLoop(points, buckets, lowOffset, index, i) ==
  IF i > Len(buckets) THEN points
  ELSE IF Len(buckets[i]) > 0
  THEN LET meanCoord == MeanPos([k \in 1..Len(buckets[i]) |-> buckets[i][k].pos])
       IN MergeLoop([points EXCEPT ![i] = Point(meanCoord, (i - 1) + lowOffset, index)],
                    buckets, lowOffset, index + 1, i + 1)
  ELSE MergeLoop(points, buckets, lowOffset, index, i + 1)

highToLow(high, resRatio) ==
  LET lowChrom == reduceRes(high.chrom, resRatio)
      low_n == Len(high.points) \div resRatio + 1
      lowOffset == high.offset \div resRatio
      b == BucketLoop([i \in 1..low_n |-> <<>>], getPoints(high), high.offset, resRatio)
  IN IF ~b.ok THEN Raise
     ELSE Ok(RawStructure(MergeLoop(Zeros(low_n), b.val, lowOffset, lowOffset, 1),
                          <<>>, lowChrom, lowOffset))

-----------------------------------------------------------------------------
(* Structure.write and structure_from_file *)

\* a line of the file: the number and either three nan or three coordinates
Line(num, point) ==
  IF point = Empty THEN [num |-> num, nan |-> TRUE, pos |-> <<>>]
  ELSE [num |-> num, nan |-> FALSE, pos |-> [k \in 1..3 |-> StrFloat(point.pos[k])]]

write(s) ==
  [name |-> s.chrom.name, res |-> s.chrom.res, minPos |-> s.chrom.minPos,
   lines |-> [i \in 1..Len(s.points) |-> Line(s.offset + i - 1, s.points[i])]]

\* the number of coordinate lines among the first i lines
RECURSIVE CountPoints(_, _)
CountPoints(lines, i) ==
  IF i = 0 THEN 0
  ELSE CountPoints(lines, i - 1) + (IF lines[i].nan THEN 0 ELSE 1)

\* with no point line, num is unbound at line 317 and the call raises
structure_from_file(f) ==
  IF Len(f.lines) = 0 THEN Raise
  ELSE LET points == [i \in 1..Len(f.lines) |->
                        IF f.lines[i].nan THEN Empty
                        ELSE Point(f.lines[i].pos, f.lines[i].num,
                                   CountPoints(f.lines, i - 1))]
           num == f.lines[Len(f.lines)].num
       IN Ok(RawStructure(points, <<>>,
                          ChromParameters(f.minPos, f.minPos + f.res * num, f.res, f.name, None),
                          0))

-----------------------------------------------------------------------------
(* make_compatible *)

RECURSIVE ConcatGenCoords(_)
ConcatGenCoords(structs) ==
  IF structs = <<>> THEN <<>> ELSE getGenCoords(structs[1]) \o ConcatGenCoords(Tail(structs))

\* the genomic coordinates counted len(structures) times, sorted
Consensus(structs) ==
  LET all == ConcatGenCoords(structs)
      count(g) == Cardinality({k \in 1..Len(all) : all[k] = g})
  IN SortSet({g \in Range(all) : count(g) = Len(structs)})

\* the loop over the consensus from its i-th coordinate on; raises when the old
\* point number is None, is out of range of the slots or names an empty slot
RECURSIVE CarryLoop(_, _, _, _, _)
CarryLoop(new_points, s, new_chrom, consensus, i) ==
  IF i > Len(consensus) THEN Ok(new_points)
  ELSE LET old_point_num == getPointNum(s.chrom, consensus[i])
           new_point_num == getPointNum(new_chrom, consensus[i])
           at == IF old_point_num = None THEN 0 ELSE PyIndex(old_point_num, Len(s.points))
       IN IF at = 0 THEN Raise
          ELSE IF s.points[at] = Empty THEN Raise
          ELSE CarryLoop([new_points EXCEPT ![new_point_num + 1] =
                                              Point(s.points[at].pos, new_point_num, i - 1)],
                         s, new_chrom, consensus, i + 1)

\* the body of the loop over the structures; consensus[0] of no consensus raises
Realign(s, consensus) ==
  IF consensus = <<>> THEN Raise
  ELSE LET new_chrom == ChromParameters(consensus[1],
                                        consensus[Len(consensus)] + s.chrom.res,
                                        s.chrom.res, s.chrom.name, s.chrom.size)
           r == CarryLoop(Zeros(getLength(new_chrom)), s, new_chrom, consensus, 1)
       IN IF r.ok THEN Ok([s EXCEPT !.points = r.val, !.chrom = new_chrom]) ELSE Raise

\* the structures from the j-th on are realigned in turn; when one raises the
\* earlier ones stay replaced
RECURSIVE RealignLoop(_, _, _)
RealignLoop(structs, consensus, j) ==
  IF j > Len(structs) THEN Ok(structs)
  ELSE LET r == Realign(structs[j], consensus)
       IN IF r.ok THEN RealignLoop([structs EXCEPT ![j] = r.val], consensus, j + 1)
          ELSE Fail(structs)

make_compatible(structs) == RealignLoop(structs, Consensus(structs), 1)

-----------------------------------------------------------------------------
(* Inputs *)

Positions == {k * BinSize : k \in 0..MaxBin}

Records == {Rec(p1, p1 + BinSize, p2, 1) : p1, p2 \in Positions}

\* the non-empty contact lists of at most MaxRecs records
Beds == UNION {[1..n -> Records] : n \in 1..MaxRecs}

\* the contact lists of an upper-triangular matrix: pos1 <= pos2 in every
\* record, the records sorted by (pos1, pos2), each pair once
SortedBeds ==
  {b \in Beds :
     /\ \A i \in 1..Len(b) : b[i].pos1 <= b[i].pos2
     /\ \A i \in 1..(Len(b) - 1) :
          \/ b[i].pos1 < b[i + 1].pos1
          \/ b[i].pos1 = b[i + 1].pos1 /\ b[i].pos2 < b[i + 1].pos2}

\* chromosome parameters a caller supplies: those of the whole chromosome
WholeChrom == ChromParameters(0, MaxBin * BinSize, BinSize, "chr", None)

ChromArgs == {<<>>, <<WholeChrom>>}

PosArgs == {None} \cup Positions

\* 1.0 as a coordinate
One == Float(10^7, 0)

\* coordinate lists for n points: k.0 for the k-th point, or 1 + k * 10^-13
CoordLists(n) ==
  { [k \in 1..n |-> <<Float(k * One.hi, 0), FZero, FZero>>],
    [k \in 1..n |-> <<Float(One.hi, k), Float(One.hi \div 2, 0), FZero>>] }

-----------------------------------------------------------------------------
(* The calls.  last records the latest call: its name, whether it returned, *)
(* its arguments and the structures as they were before it.  An exception  *)
(* is not caught: the run ends at the first call that raises.              *)

Call(op, ok, args) == [op |-> op, ok |-> ok, args |-> args, pre |-> structures]

NoCall == [op |-> "none", ok |-> TRUE, args |-> <<>>, pre |-> <<>>]

ChromFromBed ==
  /\ last.ok
  /\ chrom = <<>>
  /\ chrom' = <<chromFromBed(bed)>>
  /\ last' = Call("chromFromBed", TRUE, <<>>)
  /\ UNCHANGED <<bed, structures, file, mat>>

ReduceRes(resRatio) ==
  /\ last.ok
  /\ chrom # <<>>
  /\ chrom[1].res * resRatio <= MaxRes
  /\ chrom' = <<reduceRes(chrom[1], resRatio)>>
  /\ last' = Call("reduceRes", TRUE, <<chrom[1], resRatio>>)
  /\ UNCHANGED <<bed, structures, file, mat>>

\* structure = structureFromBed(path, chrom, start, end, offset), kept when it returns
StructureFromBed(cap, chromArg, startArg, endArg, offset) ==
  /\ last.ok
  /\ Len(structures) < cap
  /\ LET r == structureFromBed(bed, chromArg, startArg, endArg, offset)
     IN /\ structures' = IF r.ok THEN Append(structures, r.val) ELSE structures
        /\ last' = Call("structureFromBed", r.ok, <<chromArg, startArg, endArg, offset>>)
  /\ UNCHANGED <<bed, chrom, file, mat>>

SetCoords(i, coords) ==
  /\ last.ok
  /\ LET r == setCoords(structures[i], coords)
     IN /\ structures' = [structures EXCEPT ![i] = r.val]
        /\ last' = Call("setCoords", r.ok, <<i, coords>>)
  /\ UNCHANGED <<bed, chrom, file, mat>>

\* structures[i] = highToLow(structures[i], resRatio)
HighToLow(i, resRatio) ==
  /\ last.ok
  /\ structures[i].chrom.res * resRatio <= MaxRes
  /\ LET r == highToLow(structures[i], resRatio)
     IN /\ structures' = IF r.ok THEN [structures EXCEPT ![i] = r.val] ELSE structures
        /\ last' = Call("highToLow", r.ok, <<i, resRatio>>)
  /\ UNCHANGED <<bed, chrom, file, mat>>

Write(i) ==
  /\ last.ok
  /\ file' = <<write(structures[i])>>
  /\ last' = Call("write", TRUE, <<i>>)
  /\ UNCHANGED <<bed, chrom, structures, mat>>

\* structures[i] = structure_from_file(path)
StructureFromFile(i) ==
  /\ last.ok
  /\ file # <<>>
  /\ LET r == structure_from_file(file[1])
     IN /\ structures' = IF r.ok THEN [structures EXCEPT ![i] = r.val] ELSE structures
        /\ last' = Call("structure_from_file", r.ok, <<i>>)
  /\ UNCHANGED <<bed, chrom, file, mat>>

MatFromBed(structArg) ==
  /\ last.ok
  /\ LET r == matFromBed(bed, structArg)
     IN /\ mat' = IF r.ok THEN <<r.val>> ELSE <<>>
        /\ last' = Call("matFromBed", r.ok, <<structArg>>)
  /\ UNCHANGED <<bed, chrom, structures, file>>

MakeCompatible ==
  /\ last.ok
  /\ Len(structures) >= 2
  /\ LET r == make_compatible(structures)
     IN /\ structures' = r.val
        /\ last' = Call("make_compatible", r.ok, <<>>)
  /\ UNCHANGED <<bed, chrom, file, mat>>

\* parent = Structure([], structures, chrom, 0): the structures become the
\* children of one parent
Compose ==
  /\ last.ok
  /\ Len(structures) >= 1
  /\ LET r == Structure(<<>>, structures, structures[1].chrom, 0)
     IN /\ structures' = IF r.ok THEN <<r.val>> ELSE structures
        /\ last' = Call("Structure", r.ok, <<1>>)
  /\ UNCHANGED <<bed, chrom, file, mat>>

\* structures[i].createSubstructure(points, offset), the points being copies of
\* the slots a..b of structures[i] and offset the point number of slot a
CreateSubstructure(i, a, b) ==
  /\ last.ok
  /\ a <= b
  /\ LET offset == structures[i].offset + a - 1
         r == createSubstructure(structures[i], SubSeq(structures[i].points, a, b), offset)
     IN /\ structures' = [structures EXCEPT ![i] = r.val]
        /\ last' = Call("createSubstructure", r.ok, <<i, a, b, offset>>)
  /\ UNCHANGED <<bed, chrom, file, mat>>

-----------------------------------------------------------------------------
(* Chromosome parameters from a contact list, and their reduction *)

InitWith(beds) ==
  /\ bed \in beds
  /\ chrom = <<>>
  /\ structures = <<>>
  /\ file = <<>>
  /\ mat = <<>>
  /\ last = NoCall
  /\ calls = 0

\* a call within the budget of calls of the run
Counted == calls < MaxCalls /\ calls' = calls + 1

NextChrom ==
  \/ UNCHANGED calls /\ ChromFromBed
  \/ UNCHANGED calls /\ \E r \in 1..MaxRatio : ReduceRes(r)

SpecChrom == InitWith(Beds) /\ [][NextChrom]_vars

-----------------------------------------------------------------------------
(* A structure from the contact list *)

NextBed ==
  UNCHANGED calls /\ \E c \in ChromArgs, st \in PosArgs, en \in PosArgs, o \in 0..MaxOffset :
                        StructureFromBed(1, c, st, en, o)

SpecBed == InitWith(SortedBeds) /\ [][NextBed]_vars

-----------------------------------------------------------------------------
(* The contact matrix of a structure *)

NextMat ==
  \/ Counted /\ \E c \in ChromArgs, st \in PosArgs, en \in PosArgs, o \in 0..MaxOffset :
                  StructureFromBed(1, c, st, en, o)
  \/ Counted /\ MatFromBed(<<>>)
  \/ Counted /\ \E i \in 1..Len(structures) : MatFromBed(<<structures[i]>>)

SpecMat == InitWith(SortedBeds) /\ [][NextMat]_vars

-----------------------------------------------------------------------------
(* One structure: built from the contact list, given coordinates, reduced, *)
(* written and read back                                                   *)

NextStruct ==
  \/ Counted /\ \E c \in ChromArgs, st \in PosArgs, en \in PosArgs, o \in 0..MaxOffset :
                  StructureFromBed(1, c, st, en, o)
  \/ Counted /\ \E i \in 1..Len(structures) :
                  \E coords \in CoordLists(Len(getPointNums(structures[i]))) :
                    SetCoords(i, coords)
  \/ Counted /\ \E i \in 1..Len(structures), r \in 2..MaxRatio : HighToLow(i, r)
  \/ Counted /\ \E i \in 1..Len(structures) : Write(i)
  \/ Counted /\ \E i \in 1..Len(structures) : StructureFromFile(i)

SpecStruct == InitWith(SortedBeds) /\ [][NextStruct]_vars

-----------------------------------------------------------------------------
(* Two structures of the same contact list, given coordinates and aligned *)

\* the ranges of the structures: from the first bin or from the second, to the
\* last bin or to the third
CompatStarts == {None, BinSize}

CompatEnds == {None, 2 * BinSize}

NextCompat ==
  \/ Counted /\ \E c \in ChromArgs, st \in CompatStarts, en \in CompatEnds, o \in 0..MaxOffset :
                  StructureFromBed(2, c, st, en, o)
  \/ Counted /\ \E i \in 1..Len(structures) :
                  \E coords \in CoordLists(Len(getPointNums(structures[i]))) :
                    SetCoords(i, coords)
  \/ Counted /\ MakeCompatible

SpecCompat == InitWith(SortedBeds) /\ [][NextCompat]_vars

-----------------------------------------------------------------------------
(* Structures composed of child structures *)

\* the substructures of a structure partition its slots in order: the first
\* slot after the last substructure appended, slot 1 when there is none
NextSlice(s) ==
  IF s.structures = <<>> THEN 1
  ELSE LET sub == s.structures[Len(s.structures)]
       IN sub.offset - s.offset + Len(sub.points) + 1

NextTree ==
  \/ Counted /\ \E en \in CompatEnds : StructureFromBed(2, <<>>, None, en, 0)
  \/ Counted /\ Compose
  \/ Counted /\ Len(structures) >= 1
             /\ \E b \in NextSlice(structures[1])..Len(structures[1].points) :
                  CreateSubstructure(1, NextSlice(structures[1]), b)

SpecTree == InitWith(SortedBeds) /\ [][NextTree]_vars

-----------------------------------------------------------------------------
(* Properties of the operations *)

\* the structure the latest call made or replaced
Made == structures[IF last.op = "structureFromBed" THEN Len(structures) ELSE last.args[1]]

SlotInvariant(s) ==
  \A i \in 1..Len(s.points) :
    s.points[i] = Empty \/ s.points[i].num = (i - 1) + s.offset

\* C1: in every structure that structureFromBed, highToLow, structure_from_file
\* or make_compatible produced, after any sequence of these calls, slot i is
\* empty or holds a point whose num is i + offset.
C1_SlotHoldsNumPlusOffset ==
  \A j \in 1..Len(structures) : SlotInvariant(structures[j])

\* C2: after structureFromBed has scanned the contact list with range
\* [start, end], the point numbers of the non-empty points are exactly those of
\* the loci of the records whose two positions lie in [start, end] and map to
\* different point numbers, each present once.
C2_LociOfValidContacts ==
  (last.op = "structureFromBed" /\ last.ok) =>
    LET s == Made
        start == IF last.args[2] = None THEN s.chrom.minPos ELSE last.args[2]
        end == IF last.args[3] = None THEN s.chrom.maxPos ELSE last.args[3]
        InRange(p) == p >= start /\ p <= end
        valid == {i \in 1..Len(bed) :
                    /\ InRange(bed[i].pos1) /\ InRange(bed[i].pos2)
                    /\ getPointNum(s.chrom, bed[i].pos1) # getPointNum(s.chrom, bed[i].pos2)}
        expected == {getPointNum(s.chrom, bed[i].pos1) : i \in valid}
                      \cup {getPointNum(s.chrom, bed[i].pos2) : i \in valid}
        nums == getPointNums(s)
    IN /\ Range(nums) = expected
       /\ Len(nums) = Cardinality(expected)

\* a structure of two loci made from a list of two records, one of them left
\* out as a self-interaction or as out of the range given
C2_Witness ==
  /\ last.op = "structureFromBed" /\ last.ok
  /\ Len(bed) = 2
  /\ Len(getPointNums(Made)) = 2
  /\ last.args[2] # None
  /\ \E i \in 1..Len(bed) : bed[i].pos1 = bed[i].pos2 \/ bed[i].pos1 < last.args[2]

\* C3: the matrix matFromBed returns is symmetric and no record adds weight to
\* its diagonal.
C3_SymmetricZeroDiagonal ==
  mat # <<>> =>
    \A i \in 1..Len(mat[1]) :
      /\ mat[1][i][i] = 0
      /\ \A j \in 1..Len(mat[1]) : mat[1][i][j] = mat[1][j][i]

\* C5: in the structure highToLow returns, the index values of the k non-empty
\* points are 0..k-1 in ascending slot order.  (Stated for a high-resolution
\* structure whose slots hold the points of num i + offset.)
C5_LowIndexDense ==
  (last.op = "highToLow" /\ last.ok /\ SlotInvariant(last.pre[last.args[1]])) =>
    LET ps == getPoints(Made)
    IN \A k \in 1..Len(ps) : ps[k].index = k - 1

C7_WriteReadRoundTrip ==
  (/\ last.op = "structure_from_file"
   /\ file[1] = write(last.pre[last.args[1]])
   /\ SlotInvariant(last.pre[last.args[1]])) =>
    /\ last.ok
    /\ LET old == last.pre[last.args[1]]
           new == Made
       IN /\ Len(new.points) = Len(old.points)
          /\ \A i \in 1..Len(old.points) :
               IF old.points[i] = Empty THEN new.points[i] = Empty
               ELSE /\ new.points[i] # Empty
                    /\ new.points[i].num = old.points[i].num
                    /\ new.points[i].pos = old.points[i].pos
          /\ new.chrom.name = old.chrom.name
          /\ new.chrom.res = old.chrom.res
          /\ new.chrom.minPos = old.chrom.minPos

\* C8: the parameters chromFromBed returns satisfy minPos <= p <= maxPos for
\* every position p of the contact list, in any record order.
C8_ChromCoversPositions ==
  last.op = "chromFromBed" =>
    \A i \in 1..Len(bed) :
      /\ chrom[1].minPos <= bed[i].pos1 /\ bed[i].pos1 <= chrom[1].maxPos
      /\ chrom[1].minPos <= bed[i].pos2 /\ bed[i].pos2 <= chrom[1].maxPos

\* C10: for every non-empty point that highToLow merged, its genomic coordinate
\* minPos + res * num maps under the low-resolution parameters to the num of
\* the low-resolution point it was merged into.  (Stated for a high-resolution
\* structure whose slots hold the points of num i + offset, and for the points
\* whose coordinate is within the low-resolution maxPos.)
C10_LowPointNumOfGenCoord ==
  (last.op = "highToLow" /\ last.ok /\ SlotInvariant(last.pre[last.args[1]])) =>
    LET high == last.pre[last.args[1]]
        low == Made
        hp == getPoints(high)
    IN \A k \in 1..Len(hp) :
         LET genCoord == high.chrom.minPos + high.chrom.res * hp[k].num
             lowNum == (hp[k].num - high.offset) \div last.args[2]
             lowPoint == low.points[PyIndex(lowNum, Len(low.points))]
         IN genCoord <= low.chrom.maxPos => getPointNum(low.chrom, genCoord) = lowPoint.num

GenCoordSet(s) == Range(getGenCoords(s))

\* the position of the point of s at a genomic coordinate it holds
PosAt(s, genCoord) ==
  LET ps == getPoints(s)
      k == CHOOSE k \in 1..Len(ps) : s.chrom.minPos + s.chrom.res * ps[k].num = genCoord
  IN ps[k].pos

\* C4: after make_compatible each structure's non-empty genomic coordinates are
\* exactly those that were non-empty in all the structures, and the point at
\* each carries the position the structure held at that coordinate before the
\* call.  (Stated for structures whose slots hold the points of num i + offset.)
C4_ConsensusKeepsPositions ==
  (/\ last.op = "make_compatible" /\ last.ok
   /\ \A j \in 1..Len(last.pre) : SlotInvariant(last.pre[j])) =>
    LET shared == {g \in GenCoordSet(last.pre[1]) :
                     \A j \in 1..Len(last.pre) : g \in GenCoordSet(last.pre[j])}
    IN \A j \in 1..Len(structures) :
         /\ GenCoordSet(structures[j]) = shared
         /\ \A g \in shared : PosAt(structures[j], g) = PosAt(last.pre[j], g)

\* every occupied slot of every child, in the order setstructures visits them
ChildPoints(s) ==
  LET all == ConcatPoints(s.structures)
  IN {all[k] : k \in {k \in 1..Len(all) : all[k] # Empty}}

UnionOfChildren(s) ==
  LET cp == ChildPoints(s)
  IN /\ Len(s.points) = Max({p.num : p \in cp}) + 1
     /\ \A i \in 1..Len(s.points) :
          IF \E p \in cp : p.num = i - 1
          THEN s.points[i] \in {p \in cp : p.num = i - 1}
          ELSE s.points[i] = Empty

====
